---- MODULE Spec2Model ----
(***************************************************************************)
(* Model of the extraction-and-submission pipeline of convert-e57:         *)
(*   src/submit.py  has_point_within, process_poses, clear_workspace,      *)
(*                  submit_image, construct_map, main                      *)
(*   src/unpack.py  unpack, MatterportImage, quaternion_to_matrix3x3       *)
(*   src/main.py    run_submit_script, run_unpack_script (callers)         *)
(*                                                                         *)
(* Lengths are integers in units of 0.005 m, so min_distance = 0.01 is 2   *)
(* and a threshold of 0.05 is 10.  The code compares                       *)
(* sqrt(sum((p - point)**2)) with a bound m; over the reals that is        *)
(* m >= 0 /\ sum <= m*m, which is how DistLeq computes it.                 *)
(***************************************************************************)
EXTENDS Integers, Sequences, FiniteSets, TLC

VARIABLES
    \* ---- process_poses (src/submit.py) ----
    images_and_poses,   \* the input list: position (px,py,pz) of each view's metadata
    threshold,          \* params.pose_distance_threshold
    submit,             \* params.submit
    pc,                 \* "clear" | "loop" | "done" | "aborted"
    i,                  \* the enumerate() index of the view the loop is at (0-based)
    points,             \* the list `points` of accepted positions
    log,                \* the remote calls made so far, in order
    err,                \* what raised out of the run: "none" | "list" | "clear" | "read" | "image" | "capture" | "construct"
    reported,           \* what run_submit_script records for the folder: "none" | "success" | "error"
    \* ---- has_point_within called on its own ----
    hp_point, hp_points, hp_threshold, hp_min,
    hp_result,          \* <<>> until the call has returned, then <<its return value>>
    \* ---- unpack (src/unpack.py) ----
    count,              \* data2d.childCount()
    separate_scans, front_views_only,
    badNode,            \* index of the malformed node of the container, -1 when there is none
    badKind,            \* how that node is malformed: "noRep" | "noImage"
    upc,                \* "scan" | "extract" | "flat" | "done" | "aborted" | "idle"
    ui,                 \* the loop variable i of unpack
    nodes,              \* the dict `nodes` of the current scan, as the sequence of its keys still to extract
    extracted,          \* the views written so far: [node, scan], scan 0 = the output directory itself
    reads,              \* every index k at which data2d[k] was read
    dirs,               \* the scan<N> directories created
    \* ---- the pose correction of process_poses on its own ----
    fc_translation, fc_rotation,
    fc_T,               \* <<>> until the correction has been applied, then the 4x4 result
    fc_header,          \* <<>> until submit_image has built `data`, then <<its pose fields>>
    \* ---- the /capture request body of submit_image on its own ----
    fr_token,           \* <<>> when the token is None, else <<its characters (code points)>>
    fr_index,           \* index
    fr_px,              \* the text json.dumps writes for a float field
    fr_img,             \* img_bytes, as read or as re-encoded after resizing
    fr_body,            \* <<>> until the body is built, then <<the bytes of the body>>
    \* ---- one view node from MatterportImage(v) to the path submit derives ----
    vw_node,            \* the node: [guid, kind, pose], pose = <<>> or <<quaternion (x,y,z,w)>>
    vw_path,            \* the directory handed to writeImageBytes and writeMetadata
    vw_stage,           \* "new" | "decoded" | "image" | "metadata" | "derived" | "idle"
    vw_ext,             \* self.imageFileExt
    vw_quat,            \* self.quaternion, as handed to quaternion_to_matrix3x3
    vw_rot,             \* <<>> until decoded, then <<self.rotationMatrix>>
    vw_files,           \* the files written: <<directory, name, extension>>
    vw_meta,            \* <<>> until written, then <<the metadata record>>
    vw_derived          \* <<>> until derived, then <<the image path of submit's main>>

vars_submit == <<images_and_poses, threshold, submit, pc, i, points, log, err, reported>>
vars_near   == <<hp_point, hp_points, hp_threshold, hp_min, hp_result>>
vars_unpack == <<count, separate_scans, front_views_only, badNode, badKind, upc, ui,
                 nodes, extracted, reads, dirs>>
vars_pose   == <<fc_translation, fc_rotation, fc_T, fc_header>>
vars_frame  == <<fr_token, fr_index, fr_px, fr_img, fr_body>>
vars_view   == <<vw_node, vw_path, vw_stage, vw_ext, vw_quat, vw_rot, vw_files, vw_meta,
                 vw_derived>>
vars == <<vars_submit, vars_near, vars_unpack, vars_pose, vars_frame, vars_view>>

\* ------------------------------------------------------------------ bounds
MaxViews == 3
MaxAccepted == 2
MaxNodes == 14
MaxToken == 2
MaxImage == 2

\* ------------------------------------------------------- program constants
\* min_distance: float = 0.01, in units of 0.005 m
MinDistance == 2
\* pose_distance_threshold: Optional[float] = -1, the value that disables the filter
NoThreshold == -1
\* range(0, count, 6) / range(0, 6): views per panorama
GroupSize == 6
\* nodes[i + 1]: the front view within a panorama
FrontIndex == 1
\* b"\0": the byte between the header and the image
NUL == 0

SeqsUpTo(S, n) == UNION {[1..k -> S] : k \in 0..n}

\* The view positions the submission runs are drawn from: the origin, a point
\* 0.005 m from it, a point 0.025 m from it (off-axis), and a point 0.2 m away.
Positions == {<<0, 0, 0>>, <<1, 0, 0>>, <<0, 3, 4>>, <<40, 0, 0>>}
Thresholds == {NoThreshold, 10, 45}

\* ------------------------------------------------------------ has_point_within
SqDist(p, q) == (p[1] - q[1]) * (p[1] - q[1]) + (p[2] - q[2]) * (p[2] - q[2])
                + (p[3] - q[3]) * (p[3] - q[3])

\* np.sqrt(np.sum((p - point) ** 2)) <= m
DistLeq(p, q, m) == m >= 0 /\ SqDist(p, q) <= m * m

\* has_point_within without the `distance <= min_distance: continue` test
RECURSIVE has_point_within_noMin(_, _, _, _)
has_point_within_noMin(point, pts, distance_threshold, min_distance) ==
    IF pts = <<>> THEN FALSE
    ELSE IF DistLeq(Head(pts), point, distance_threshold) THEN TRUE
    ELSE has_point_within_noMin(point, Tail(pts), distance_threshold, min_distance)

RECURSIVE has_point_within(_, _, _, _)
has_point_within(point, pts, distance_threshold, min_distance) ==
    IF pts = <<>> THEN FALSE
    ELSE IF DistLeq(Head(pts), point, min_distance)
         THEN has_point_within(point, Tail(pts), distance_threshold, min_distance)
    ELSE IF DistLeq(Head(pts), point, distance_threshold) THEN TRUE
    ELSE has_point_within(point, Tail(pts), distance_threshold, min_distance)

\* ------------------------------------------------------------ remote service
\* What a requests.post call can do: return a success text, return a
\* non-success text, or raise (transport failure).
Outcomes == {"ok", "error", "transport"}

Call(ep, index, view, res) == [ep |-> ep, index |-> index, view |-> view, res |-> res]

\* a call that raises on a non-success response as well
Raises_anyFailure(res) == res # "ok"

\* clear_workspace, submit_image and construct_map return r.text unexamined;
\* only an exception raised by requests.post (or by open()) leaves the caller.
Raises(res) == res \in {"transport", "unreadable"}

\* run_submit_script: submit(name) returning counts the folder as processed,
\* an exception is logged as an error.
Report(raised) == IF raised THEN "error" ELSE "success"

\* submit_image(i, x['image'], T, ...): the index handed to /capture
SubmitIndex(loopIndex, accepted) == loopIndex

\* ------------------------------------------------------------ process_poses
IdleSubmit ==
    /\ images_and_poses = <<>> /\ threshold = NoThreshold /\ submit = FALSE
    /\ pc = "idle" /\ i = 0 /\ points = <<>> /\ log = <<>>
    /\ err = "none" /\ reported = "none"

InitSubmit ==
    /\ images_and_poses \in SeqsUpTo(Positions, MaxViews)
    /\ threshold \in Thresholds
    /\ submit \in BOOLEAN
    /\ pc = "clear" /\ i = 0 /\ points = <<>> /\ log = <<>>
    /\ err = "none" /\ reported = "none"

Abort(why) == pc' = "aborted" /\ err' = why /\ reported' = Report(TRUE)

\* main: json.load(json_file) or json_data['img'] raises while the list of
\* image/pose pairs is built, before process_poses is called
MainLoadFail ==
    /\ pc = "clear" /\ images_and_poses # <<>>
    /\ Abort("list")
    /\ UNCHANGED <<images_and_poses, threshold, submit, i, points, log>>
    /\ UNCHANGED <<vars_near, vars_unpack, vars_pose, vars_frame, vars_view>>

\* if (params.submit): clear_workspace()
ClearStep ==
    /\ pc = "clear"
    /\ IF submit
       THEN \E res \in Outcomes :
              /\ log' = Append(log, Call("clear", -1, -1, res))
              /\ IF Raises(res)
                 THEN Abort("clear")
                 ELSE pc' = "loop" /\ UNCHANGED <<err, reported>>
       ELSE pc' = "loop" /\ UNCHANGED <<log, err, reported>>
    /\ UNCHANGED <<images_and_poses, threshold, submit, i, points>>
    /\ UNCHANGED <<vars_near, vars_unpack, vars_pose, vars_frame, vars_view>>

\* open(x['pose']) / json.load / data['px'] raises: the metadata is unreadable
LoopReadFail ==
    /\ pc = "loop" /\ i < Len(images_and_poses)
    /\ Abort("read")
    /\ UNCHANGED <<images_and_poses, threshold, submit, i, points, log>>
    /\ UNCHANGED <<vars_near, vars_unpack, vars_pose, vars_frame, vars_view>>

\* points.append placed before the nearness check: a rejected pose is recorded
LoopSkip_recordsRejected ==
    /\ pc = "loop" /\ i < Len(images_and_poses)
    /\ threshold # NoThreshold
    /\ has_point_within(images_and_poses[i + 1], points, threshold, MinDistance)
    /\ i' = i + 1
    /\ points' = Append(points, images_and_poses[i + 1])
    /\ UNCHANGED <<images_and_poses, threshold, submit, pc, log, err, reported>>
    /\ UNCHANGED <<vars_near, vars_unpack, vars_pose, vars_frame, vars_view>>

\* the pose is too close to an accepted one: continue
LoopSkip ==
    /\ pc = "loop" /\ i < Len(images_and_poses)
    /\ threshold # NoThreshold
    /\ has_point_within(images_and_poses[i + 1], points, threshold, MinDistance)
    /\ i' = i + 1
    /\ UNCHANGED <<images_and_poses, threshold, submit, pc, points, log, err, reported>>
    /\ UNCHANGED <<vars_near, vars_unpack, vars_pose, vars_frame, vars_view>>

\* points.append(...), the pose correction, and submit_image when submitting
LoopAccept ==
    /\ pc = "loop" /\ i < Len(images_and_poses)
    /\ ~(threshold # NoThreshold
         /\ has_point_within(images_and_poses[i + 1], points, threshold, MinDistance))
    /\ points' = Append(points, images_and_poses[i + 1])
    /\ IF submit
       THEN \E res \in Outcomes \cup {"unreadable"} :
              \* "unreadable": open(image_path, 'rb') raises, nothing is sent
              /\ log' = IF res = "unreadable" THEN log
                        ELSE Append(log, Call("capture", SubmitIndex(i, points), i, res))
              /\ IF Raises(res)
                 THEN /\ Abort(IF res = "unreadable" THEN "image" ELSE "capture")
                      /\ UNCHANGED i
                 ELSE /\ i' = i + 1
                      /\ UNCHANGED <<pc, err, reported>>
       ELSE i' = i + 1 /\ UNCHANGED <<pc, log, err, reported>>
    /\ UNCHANGED <<images_and_poses, threshold, submit>>
    /\ UNCHANGED <<vars_near, vars_unpack, vars_pose, vars_frame, vars_view>>

\* construct_map called from inside the loop body instead of after it
ConstructStep_insideLoop ==
    /\ pc = "loop" /\ i <= Len(images_and_poses)
    /\ IF submit
       THEN \E res \in Outcomes :
              /\ log' = Append(log, Call("construct", -1, -1, res))
              /\ IF Raises(res)
                 THEN Abort("construct")
                 ELSE pc' = "done" /\ reported' = Report(FALSE) /\ UNCHANGED err
       ELSE pc' = "done" /\ reported' = Report(FALSE) /\ UNCHANGED <<log, err>>
    /\ UNCHANGED <<images_and_poses, threshold, submit, i, points>>
    /\ UNCHANGED <<vars_near, vars_unpack, vars_pose, vars_frame, vars_view>>

\* after the loop: if params.submit: construct_map(map_params, index)
ConstructStep ==
    /\ pc = "loop" /\ i = Len(images_and_poses)
    /\ IF submit
       THEN \E res \in Outcomes :
              /\ log' = Append(log, Call("construct", -1, -1, res))
              /\ IF Raises(res)
                 THEN Abort("construct")
                 ELSE pc' = "done" /\ reported' = Report(FALSE) /\ UNCHANGED err
       ELSE pc' = "done" /\ reported' = Report(FALSE) /\ UNCHANGED <<log, err>>
    /\ UNCHANGED <<images_and_poses, threshold, submit, i, points>>
    /\ UNCHANGED <<vars_near, vars_unpack, vars_pose, vars_frame, vars_view>>

NextSubmit ==
    \/ MainLoadFail
    \/ ClearStep
    \/ LoopReadFail
    \/ LoopSkip
    \/ LoopAccept
    \/ ConstructStep

\* ------------------------------------------------- has_point_within on its own
NearPoints == Positions \cup {<<4, 0, 0>>, <<0, 0, 10>>}
NearThresholds == {NoThreshold, 1, 10}
NearMins == {0, MinDistance}

IdleNear ==
    /\ hp_point = <<0, 0, 0>> /\ hp_points = <<>> /\ hp_threshold = NoThreshold
    /\ hp_min = MinDistance /\ hp_result = <<>>

InitNear ==
    /\ hp_point \in NearPoints
    /\ hp_points \in SeqsUpTo(NearPoints, MaxAccepted)
    /\ hp_threshold \in NearThresholds
    /\ hp_min \in NearMins
    /\ hp_result = <<>>

CallHasPointWithin ==
    /\ hp_result = <<>>
    /\ hp_result' = <<has_point_within(hp_point, hp_points, hp_threshold, hp_min)>>
    /\ UNCHANGED <<hp_point, hp_points, hp_threshold, hp_min>>
    /\ UNCHANGED <<vars_submit, vars_unpack, vars_pose, vars_frame, vars_view>>

NextNear == CallHasPointWithin

\* ------------------------------------------------------------------- unpack
\* What the container holds at node k: every node but badNode is well formed.
KindOf(k) == IF k = badNode THEN badKind ELSE "jpeg"

\* MatterportImage.__init__: repString stays "" when no representation is
\* defined and imageType stays "" when the representation holds neither
\* jpegImage nor pngImage; node[""] and repNode[""] then raise.
RepString(kind) == IF kind = "noRep" THEN "" ELSE "visualReferenceRepresentation"
ImageType(kind) == IF kind \in {"jpeg", "both"} THEN "jpegImage"
                   ELSE IF kind = "png" THEN "pngImage" ELSE ""
InitRaises(kind) == RepString(kind) = "" \/ ImageType(kind) = ""

\* scanNmb = (i // 6) + 1
ScanNmb(k) == (k \div GroupSize) + 1

\* `nodes` filled without the `i + j < count` tests
ScanNodes_unguarded(k, n, front) ==
    IF front
    THEN <<k + FrontIndex>>
    ELSE [j \in 1..GroupSize |-> k + j - 1]

\* The keys put into `nodes` for the scan that starts at k, in insertion order.
ScanNodes(k, n, front) ==
    IF front
    THEN IF k + FrontIndex < n THEN <<k + FrontIndex>> ELSE <<>>
    ELSE [j \in 1..(IF n - k < GroupSize THEN n - k ELSE GroupSize) |-> k + j - 1]

\* the flat loop keeping index 0 of each panorama instead of index 1
FlatSkips_firstOfGroup(k, front) == front /\ k % GroupSize # 0

\* front_views_only and i % 6 != 1: continue
FlatSkips(k, front) == front /\ k % GroupSize # FrontIndex

Range(f) == {f[x] : x \in DOMAIN f}

IdleUnpack ==
    /\ count = 0 /\ separate_scans = TRUE /\ front_views_only = FALSE
    /\ badNode = -1 /\ badKind = "noRep"
    /\ upc = "idle" /\ ui = 0 /\ nodes = <<>> /\ extracted = <<>>
    /\ reads = {} /\ dirs = {}

InitUnpack ==
    /\ count \in 0..MaxNodes
    /\ separate_scans \in BOOLEAN
    /\ front_views_only \in BOOLEAN
    /\ badNode \in -1..(count - 1)
    /\ badKind \in IF badNode = -1 THEN {"noRep"} ELSE {"noRep", "noImage"}
    /\ upc = IF separate_scans THEN "scan" ELSE "flat"
    /\ ui = 0 /\ nodes = <<>> /\ extracted = <<>> /\ reads = {} /\ dirs = {}

\* for i in range(0, count, 6): make the scan directory and fill `nodes`
ScanBegin ==
    /\ upc = "scan" /\ ui < count
    /\ dirs' = dirs \cup {ScanNmb(ui)}
    /\ nodes' = ScanNodes(ui, count, front_views_only)
    /\ reads' = reads \cup Range(ScanNodes(ui, count, front_views_only))
    /\ upc' = "extract"
    /\ UNCHANGED <<count, separate_scans, front_views_only, badNode, badKind, ui, extracted>>
    /\ UNCHANGED <<vars_submit, vars_near, vars_pose, vars_frame, vars_view>>

\* for k, v in nodes.items(): MatterportImage(v), writeImageBytes, writeMetadata
ExtractNode ==
    /\ upc = "extract" /\ nodes # <<>>
    /\ IF InitRaises(KindOf(Head(nodes)))
       THEN upc' = "aborted" /\ UNCHANGED <<nodes, extracted>>
       ELSE /\ extracted' = Append(extracted, [node |-> Head(nodes), scan |-> ScanNmb(ui)])
            /\ nodes' = Tail(nodes)
            /\ UNCHANGED upc
    /\ UNCHANGED <<count, separate_scans, front_views_only, badNode, badKind, ui, reads, dirs>>
    /\ UNCHANGED <<vars_submit, vars_near, vars_pose, vars_frame, vars_view>>

\* the scan's nodes are all written: next i
ScanEnd ==
    /\ upc = "extract" /\ nodes = <<>>
    /\ ui' = ui + GroupSize
    /\ upc' = "scan"
    /\ UNCHANGED <<count, separate_scans, front_views_only, badNode, badKind, nodes,
                   extracted, reads, dirs>>
    /\ UNCHANGED <<vars_submit, vars_near, vars_pose, vars_frame, vars_view>>

\* else: for i in range(0, count): one iteration
FlatStep ==
    /\ upc = "flat" /\ ui < count
    /\ IF FlatSkips(ui, front_views_only)
       THEN ui' = ui + 1 /\ UNCHANGED <<upc, extracted, reads>>
       ELSE /\ reads' = reads \cup {ui}
            /\ IF InitRaises(KindOf(ui))
               THEN upc' = "aborted" /\ UNCHANGED <<ui, extracted>>
               ELSE /\ extracted' = Append(extracted, [node |-> ui, scan |-> 0])
                    /\ ui' = ui + 1
                    /\ UNCHANGED upc
    /\ UNCHANGED <<count, separate_scans, front_views_only, badNode, badKind, nodes, dirs>>
    /\ UNCHANGED <<vars_submit, vars_near, vars_pose, vars_frame, vars_view>>

\* the range is exhausted: unpack returns
UnpackReturn ==
    /\ upc \in {"scan", "flat"} /\ ui >= count
    /\ upc' = "done"
    /\ UNCHANGED <<count, separate_scans, front_views_only, badNode, badKind, ui, nodes,
                   extracted, reads, dirs>>
    /\ UNCHANGED <<vars_submit, vars_near, vars_pose, vars_frame, vars_view>>

NextUnpack ==
    \/ ScanBegin
    \/ ExtractNode
    \/ ScanEnd
    \/ FlatStep
    \/ UnpackReturn

\* ------------------------------------------ the pose correction on its own
\* T built without negating the Y and Z columns
BuildT_noFlip(t, r) ==
    << <<r[1][1], r[1][2], r[1][3], t[1]>>,
       <<r[2][1], r[2][2], r[2][3], t[2]>>,
       <<r[3][1], r[3][2], r[3][3], t[3]>>,
       <<0, 0, 0, 1>> >>

\* T = np.array([[r00, -r01, -r02, px], [r10, -r11, -r12, py],
\*               [r20, -r21, -r22, pz], [0, 0, 0, 1]])
BuildT(t, r) ==
    << <<r[1][1], -r[1][2], -r[1][3], t[1]>>,
       <<r[2][1], -r[2][2], -r[2][3], t[2]>>,
       <<r[3][1], -r[3][2], -r[3][3], t[3]>>,
       <<0, 0, 0, 1>> >>

\* -90 deg around global X
TD == << <<1, 0, 0, 0>>, <<0, 0, 1, 0>>, <<0, -1, 0, 0>>, <<0, 0, 0, 1>> >>

\* the product taken in the other order, np.dot(T, TD)
Dot_swapped(A, B) ==
    [r \in 1..4 |-> [c \in 1..4 |->
        B[r][1] * A[1][c] + B[r][2] * A[2][c] + B[r][3] * A[3][c] + B[r][4] * A[4][c]]]

\* np.dot on two 4x4 matrices
Dot(A, B) ==
    [r \in 1..4 |-> [c \in 1..4 |->
        A[r][1] * B[1][c] + A[r][2] * B[2][c] + A[r][3] * B[3][c] + A[r][4] * B[4][c]]]

\* T = np.dot(TD, T)
FrameCorrect(t, r) == Dot(TD, BuildT(t, r))

Identity3 == << <<1, 0, 0>>, <<0, 1, 0>>, <<0, 0, 1>> >>
Rotations == { Identity3,
               << <<0, -1, 0>>, <<1, 0, 0>>, <<0, 0, 1>> >>,
               << <<1, 0, 0>>, <<0, 0, -1>>, <<0, 1, 0>> >>,
               << <<1, 2, 3>>, <<4, 5, 6>>, <<7, 8, 9>> >> }
Translations == {<<x, y, z>> : x \in {0, 1, -2}, y \in {0, 3, -4}, z \in {0, 5, -6}}

IdlePose ==
    /\ fc_translation = <<0, 0, 0>> /\ fc_rotation = Identity3 /\ fc_T = <<>>
    /\ fc_header = <<>>

InitPose ==
    /\ fc_translation \in Translations
    /\ fc_rotation \in Rotations
    /\ fc_T = <<>>
    /\ fc_header = <<>>

ApplyFrameCorrect ==
    /\ fc_T = <<>>
    /\ fc_T' = FrameCorrect(fc_translation, fc_rotation)
    /\ UNCHANGED <<fc_translation, fc_rotation, fc_header>>
    /\ UNCHANGED <<vars_submit, vars_near, vars_unpack, vars_frame, vars_view>>

\* submit_image: "px": image_pose[0][3], ..., "r22": image_pose[2][2]
HeaderPose(pose) ==
    [px |-> pose[1][4], py |-> pose[2][4], pz |-> pose[3][4],
     r00 |-> pose[1][1], r01 |-> pose[1][2], r02 |-> pose[1][3],
     r10 |-> pose[2][1], r11 |-> pose[2][2], r12 |-> pose[2][3],
     r20 |-> pose[3][1], r21 |-> pose[3][2], r22 |-> pose[3][3]]

\* submit_image(i, x['image'], T, ...) builds `data` from the corrected pose
BuildHeaderPose ==
    /\ fc_T # <<>> /\ fc_header = <<>>
    /\ fc_header' = <<HeaderPose(fc_T)>>
    /\ UNCHANGED <<fc_translation, fc_rotation, fc_T>>
    /\ UNCHANGED <<vars_submit, vars_near, vars_unpack, vars_frame, vars_view>>

NextPose ==
    \/ ApplyFrameCorrect
    \/ BuildHeaderPose

\* --------------------------------------- the /capture request body on its own
\* Characters are code points and bytes are 0..255.
Hex(d) == IF d < 10 THEN 48 + d ELSE 87 + d

\* a header written without escaping, each character as its own byte
JsonEscape_raw(c) == <<c>>

\* json.dumps on one character of a string (ensure_ascii): '"' and '\' get a
\* backslash, newline becomes \n, any other control character becomes \u00XX
JsonEscape(c) ==
    IF c = 34 THEN <<92, 34>>
    ELSE IF c = 92 THEN <<92, 92>>
    ELSE IF c = 10 THEN <<92, 110>>
    ELSE IF c < 32 THEN <<92, 117, 48, 48, Hex(c \div 16), Hex(c % 16)>>
    ELSE <<c>>

RECURSIVE JsonString(_)
JsonString(str) ==
    IF str = <<>> THEN <<>> ELSE JsonEscape(Head(str)) \o JsonString(Tail(str))

\* json.dumps on a non-negative int
RECURSIVE JsonInt(_)
JsonInt(n) == IF n < 10 THEN <<48 + n>> ELSE JsonInt(n \div 10) \o <<48 + (n % 10)>>

\* json.dumps(data).encode(): {"token": <token>, "index": <index>, "px": <px>};
\* the other fields of data are ints, booleans and floats like these.
JsonHeader(token, index, px) ==
    <<123, 34, 116, 111, 107, 101, 110, 34, 58, 32>>
    \o (IF token = <<>> THEN <<110, 117, 108, 108>>
        ELSE <<34>> \o JsonString(token[1]) \o <<34>>)
    \o <<44, 32, 34, 105, 110, 100, 101, 120, 34, 58, 32>> \o JsonInt(index)
    \o <<44, 32, 34, 112, 120, 34, 58, 32>> \o px
    \o <<125>>

\* the header and the image joined with nothing between them
Body_noSeparator(header, img) == header \o img

\* body = json_bytes + b"\0" + img_bytes
Body(header, img) == header \o <<NUL>> \o img

\* NUL, newline, '"' and 'a'
TokenChars == {0, 10, 34, 97}
ImageBytes == {0, 123, 255}
\* 0.0, -1.5 and NaN as json.dumps writes them
FloatTexts == {<<48, 46, 48>>, <<45, 49, 46, 53>>, <<78, 97, 78>>}

IdleFrame ==
    /\ fr_token = <<>> /\ fr_index = 0 /\ fr_px = <<48, 46, 48>>
    /\ fr_img = <<>> /\ fr_body = <<>>

InitFrame ==
    /\ fr_token \in {<<>>} \cup {<<t>> : t \in SeqsUpTo(TokenChars, MaxToken)}
    /\ fr_index \in {0, 12}
    /\ fr_px \in FloatTexts
    /\ fr_img \in SeqsUpTo(ImageBytes, MaxImage)
    /\ fr_body = <<>>

BuildBody ==
    /\ fr_body = <<>>
    /\ fr_body' = <<Body(JsonHeader(fr_token, fr_index, fr_px), fr_img)>>
    /\ UNCHANGED <<fr_token, fr_index, fr_px, fr_img>>
    /\ UNCHANGED <<vars_submit, vars_near, vars_unpack, vars_pose, vars_view>>

NextFrame == BuildBody

\* ------------------------------------- one view node, from decoding to submit
\* self.imageFileExt, set together with imageType
ImageFileExt(kind) == IF ImageType(kind) = "jpegImage" THEN "jpg"
                      ELSE IF ImageType(kind) = "pngImage" THEN "png" ELSE ""

\* self.quaternion = np.zeros(4), overwritten when the node defines a pose
ReadQuaternion(pose) == IF pose = <<>> THEN <<0, 0, 0, 0>> ELSE pose[1]

\* quaternion_to_matrix3x3: n = 1/sqrt(qx*qx + qy*qy + qz*qz + qw*qw) scales
\* the four components, so every entry is an integer form of q over
\* den = qx*qx + qy*qy + qz*qz + qw*qw.  With den = 0 the division gives inf
\* and every entry is 0 * inf = nan: `defined` is then FALSE.
quaternion_to_matrix3x3(q) ==
    LET qx == q[1]
        qy == q[2]
        qz == q[3]
        qw == q[4]
        den == qx * qx + qy * qy + qz * qz + qw * qw
    IN [defined |-> den # 0,
        den |-> den,
        num |-> << <<den - 2 * qy * qy - 2 * qz * qz, 2 * qx * qy - 2 * qz * qw,
                     2 * qx * qz + 2 * qy * qw>>,
                   <<2 * qx * qy + 2 * qz * qw, den - 2 * qx * qx - 2 * qz * qz,
                     2 * qy * qz - 2 * qx * qw>>,
                   <<2 * qx * qz - 2 * qy * qw, 2 * qy * qz + 2 * qx * qw,
                     den - 2 * qx * qx - 2 * qy * qy>> >>]

\* self.imageFilePath = f'{path}/{self.guid}.{self.imageFileExt}'
ImageFilePath(path, guid, ext) == <<path, guid, ext>>
\* self.metadataFilePath = f'{path}/{self.guid}.json'
MetadataFilePath(path, guid) == <<path, guid, "json">>
\* main: os.path.join(os.path.dirname(j), f"{json_data['img']}.jpg")
SubmitImagePath(j, json_data) == <<j[1], json_data.img, "jpg">>

Quaternions == {<<0, 0, 0, 1>>, <<1, 0, 0, 0>>, <<0, 1, 0, 1>>, <<1, -1, 1, 1>>,
                <<1, 2, 3, 4>>}
ViewNodes == [guid : {"a", "b"}, kind : {"jpeg", "png", "both"},
              pose : {<<>>} \cup {<<q>> : q \in Quaternions}]

IdleView ==
    /\ vw_node = [guid |-> "a", kind |-> "jpeg", pose |-> <<>>]
    /\ vw_path = "scan1" /\ vw_stage = "idle" /\ vw_ext = ""
    /\ vw_quat = <<0, 0, 0, 0>> /\ vw_rot = <<>> /\ vw_files = {}
    /\ vw_meta = <<>> /\ vw_derived = <<>>

InitView ==
    /\ vw_node \in ViewNodes
    /\ vw_path \in {"scan1", "scan2"}
    /\ vw_stage = "new" /\ vw_ext = ""
    /\ vw_quat = <<0, 0, 0, 0>> /\ vw_rot = <<>> /\ vw_files = {}
    /\ vw_meta = <<>> /\ vw_derived = <<>>

\* img = MatterportImage(v)
DecodeNode ==
    /\ vw_stage = "new"
    /\ vw_ext' = ImageFileExt(vw_node.kind)
    /\ vw_quat' = ReadQuaternion(vw_node.pose)
    /\ vw_rot' = <<quaternion_to_matrix3x3(ReadQuaternion(vw_node.pose))>>
    /\ vw_stage' = "decoded"
    /\ UNCHANGED <<vw_node, vw_path, vw_files, vw_meta, vw_derived>>
    /\ UNCHANGED <<vars_submit, vars_near, vars_unpack, vars_pose, vars_frame>>

\* img.writeImageBytes(scanPath)
WriteImageBytes ==
    /\ vw_stage = "decoded"
    /\ vw_files' = vw_files \cup {ImageFilePath(vw_path, vw_node.guid, vw_ext)}
    /\ vw_stage' = "image"
    /\ UNCHANGED <<vw_node, vw_path, vw_ext, vw_quat, vw_rot, vw_meta, vw_derived>>
    /\ UNCHANGED <<vars_submit, vars_near, vars_unpack, vars_pose, vars_frame>>

\* img.writeMetadata(scanPath)
WriteMetadata ==
    /\ vw_stage = "image"
    /\ vw_files' = vw_files \cup {MetadataFilePath(vw_path, vw_node.guid)}
    /\ vw_meta' = <<[img |-> vw_node.guid, rot |-> vw_rot[1]]>>
    /\ vw_stage' = "metadata"
    /\ UNCHANGED <<vw_node, vw_path, vw_ext, vw_quat, vw_rot, vw_derived>>
    /\ UNCHANGED <<vars_submit, vars_near, vars_unpack, vars_pose, vars_frame>>

\* main of the submission pass, for the metadata file of this view
DeriveImagePath ==
    /\ vw_stage = "metadata"
    /\ vw_derived' = <<SubmitImagePath(MetadataFilePath(vw_path, vw_node.guid), vw_meta[1])>>
    /\ vw_stage' = "derived"
    /\ UNCHANGED <<vw_node, vw_path, vw_ext, vw_quat, vw_rot, vw_files, vw_meta>>
    /\ UNCHANGED <<vars_submit, vars_near, vars_unpack, vars_pose, vars_frame>>

NextView ==
    \/ DecodeNode
    \/ WriteImageBytes
    \/ WriteMetadata
    \/ DeriveImagePath

\* ----------------------------------------------------------- specifications
\* One submission session: process_poses on one input list.
Init == InitSubmit /\ IdleNear /\ IdleUnpack /\ IdlePose /\ IdleFrame /\ IdleView
Next == NextSubmit
Spec == Init /\ [][Next]_vars

\* has_point_within applied to bounded inputs.
InitN == IdleSubmit /\ InitNear /\ IdleUnpack /\ IdlePose /\ IdleFrame /\ IdleView
SpecNear == InitN /\ [][NextNear]_vars

\* unpack on one container.
InitU == IdleSubmit /\ IdleNear /\ InitUnpack /\ IdlePose /\ IdleFrame /\ IdleView
SpecUnpack == InitU /\ [][NextUnpack]_vars

\* The pose correction applied to bounded inputs.
InitP == IdleSubmit /\ IdleNear /\ IdleUnpack /\ InitPose /\ IdleFrame /\ IdleView
SpecPose == InitP /\ [][NextPose]_vars

\* The /capture body built from bounded inputs.
InitF == IdleSubmit /\ IdleNear /\ IdleUnpack /\ IdlePose /\ InitFrame /\ IdleView
SpecFrame == InitF /\ [][NextFrame]_vars

\* One view node decoded, written and looked up by the submission pass.
InitV == IdleSubmit /\ IdleNear /\ IdleUnpack /\ IdlePose /\ IdleFrame /\ InitView
SpecView == InitV /\ [][NextView]_vars
\* =================================================================== claims
\* ---- definitions the claims are stated with
Captures == SelectSeq(log, LAMBDA c : c.ep = "capture")
Sent(ep) == \E k \in 1..Len(log) : log[k].ep = ep
Failed(ep) == \E k \in 1..Len(log) : log[k].ep = ep /\ log[k].res # "ok"

\* minDistance < d <= threshold, for a squared distance d2
Between(d2, lo, hi) == (lo < 0 \/ d2 > lo * lo) /\ hi >= 0 /\ d2 <= hi * hi

\* The greedy first-seen-wins filter as the specification words it: the
\* 0-based indices of the views kept among the first n of the input.
RECURSIVE KeptUpTo(_)
KeptUpTo(n) ==
    IF n = 0 THEN <<>>
    ELSE LET prev == KeptUpTo(n - 1)
             c == images_and_poses[n]
         IN IF /\ threshold # -1
               /\ \E j \in 1..Len(prev) :
                     Between(SqDist(images_and_poses[prev[j] + 1], c), 2, threshold)
            THEN prev
            ELSE Append(prev, n - 1)

PositionsOf(idx) == [k \in 1..Len(idx) |-> images_and_poses[idx[k] + 1]]
ViewsOf(calls) == [k \in 1..Len(calls) |-> calls[k].view]

PosA == <<0, 0, 0>>
PosNearA == <<0, 3, 4>>
PosFar == <<40, 0, 0>>
PosOnA == <<1, 0, 0>>

\* C1: within one session the index values sent to /capture are 0,1,2,...
\* without gaps or repeats: the k-th accepted view is sent with index k.
C1_IndexSequence ==
    \A k \in 1..Len(Captures) : Captures[k].index = k - 1

\* C2: the remote calls of a run are one /clear, then the /capture calls,
\* then one /construct: /clear is the first call and has returned before any
\* other call, /construct is the last call and is sent only once the view of
\* every accepted pose has been sent, and a run that returns has made both.
C2_CallOrder ==
    /\ \A k \in 1..Len(log) : (log[k].ep = "clear") <=> (k = 1)
    /\ \A k \in 1..Len(log) : log[k].ep = "construct" => k = Len(log)
    /\ Len(log) > 1 => log[1].res # "transport"
    /\ Sent("construct") => ViewsOf(Captures) = KeptUpTo(Len(images_and_poses))
    /\ (pc = "done" /\ submit) => Sent("clear") /\ Sent("construct")
    /\ ~submit => log = <<>>

\* C2 witness: a returned run that sent at least two views and skipped one.
C2_Witness ==
    /\ pc = "done" /\ submit
    /\ Len(Captures) >= 2 /\ Len(Captures) < Len(images_and_poses)

\* C3: a failed /clear or /construct (transport failure or non-success
\* response) aborts the run: after a failed clear no /capture and no
\* /construct is sent, the run does not return normally, and a failed
\* construct is never reported as a success.
C3_ClearConstructFailureIsFatal ==
    /\ Failed("clear") => ~Sent("capture") /\ ~Sent("construct")
    /\ (Failed("clear") \/ Failed("construct")) => pc # "done"
    /\ Failed("construct") => reported # "success"

C5_NearbyIff ==
    hp_result # <<>> =>
      /\ hp_result[1] = (\E k \in 1..Len(hp_points) :
                            Between(SqDist(hp_points[k], hp_point), hp_min, hp_threshold))
      /\ hp_points = <<>> => hp_result[1] = FALSE
      /\ (hp_min = 2 /\ hp_threshold = 10 /\ hp_points = << <<0, 0, 0>> >>) =>
            /\ hp_point = <<1, 0, 0>> => hp_result[1] = FALSE
            /\ hp_point = <<4, 0, 0>> => hp_result[1] = TRUE
            /\ hp_point = <<40, 0, 0>> => hp_result[1] = FALSE

\* C5 witness: the call returned true because of the second accepted
\* position, the first one being closer than minDistance.
C5_Witness ==
    /\ hp_result = <<TRUE>>
    /\ Len(hp_points) = 2 /\ hp_min = 2
    /\ SqDist(hp_points[1], hp_point) <= 4 /\ SqDist(hp_points[1], hp_point) > 0

\* C6: the accepted list is the greedy first-seen-wins filter of the views
\* processed so far, in input order: a view is kept exactly when no kept
\* earlier view is nearby, a rejected view never causes a rejection, the
\* first view is always kept, [A, B close to A, C far] keeps A and C, and
\* with threshold -1 every view is kept.
C6_GreedyFilter ==
    /\ pc # "aborted" => points = PositionsOf(KeptUpTo(i))
    /\ pc = "aborted" =>
          \/ points = PositionsOf(KeptUpTo(i))
          \/ i < Len(images_and_poses) /\ points = PositionsOf(KeptUpTo(i + 1))
    /\ i >= 1 => (points # <<>> /\ points[1] = images_and_poses[1])
    /\ (pc = "done" /\ threshold = -1) => points = images_and_poses
    /\ (pc = "done" /\ threshold = 10 /\ images_and_poses = <<PosA, PosNearA, PosFar>>)
          => points = <<PosA, PosFar>>
    /\ (pc = "done" /\ threshold = 10 /\ images_and_poses = <<PosA, PosNearA, PosOnA>>)
          => points = <<PosA, PosOnA>>

\* C6 witness: the run on [A, B close to A, C far] returned with A and C kept.
C6_Witness ==
    /\ pc = "done" /\ threshold = 10
    /\ images_and_poses = <<PosA, PosNearA, PosFar>>
    /\ points = <<PosA, PosFar>>

\* C7: with separate_scans and without front_views_only, unpack extracts
\* the nodes 0..n-1 in order, each once, node k into scan floor(k/6)+1,
\* never reads an index >= n, and on return has made ceil(n/6) scans, each
\* of 6 views but a trailing one of n mod 6.
C7_SeparateScansExtractsAll ==
    (separate_scans /\ ~front_views_only) =>
      /\ reads \subseteq 0..(count - 1)
      /\ \A k \in 1..Len(extracted) :
            extracted[k].node = k - 1 /\ extracted[k].scan = ((k - 1) \div 6) + 1
      /\ upc = "done" =>
            /\ Len(extracted) = count
            /\ dirs = 1..((count + 5) \div 6)
            /\ \A g \in dirs :
                  Cardinality({k \in 1..Len(extracted) : extracted[k].scan = g})
                     = IF 6 * g <= count THEN 6 ELSE count % 6

\* C7 witness: unpack returned on a container of 14 nodes, all extracted.
C7_Witness ==
    /\ separate_scans /\ ~front_views_only /\ upc = "done"
    /\ count = 14 /\ Len(extracted) = 14 /\ dirs = {1, 2, 3}

\* C8: with front_views_only, separate or flat, unpack extracts only nodes
\* at positions congruent to 1 modulo 6, each at most once (into scan g+1 for
\* node 6g+1 when separate), and on return has extracted every such node of
\* the container: for 12 nodes exactly the nodes 1 and 7.
C8_FrontViewsOnly ==
    front_views_only =>
      /\ \A k \in 1..Len(extracted) :
            /\ extracted[k].node % 6 = 1
            /\ extracted[k].node \in 0..(count - 1)
            /\ separate_scans => extracted[k].scan = (extracted[k].node \div 6) + 1
            /\ \A j \in 1..(k - 1) : extracted[j].node # extracted[k].node
      /\ upc = "done" =>
            {extracted[k].node : k \in 1..Len(extracted)}
               = {n \in 0..(count - 1) : n % 6 = 1}
      /\ (upc = "done" /\ count = 12) =>
            {extracted[k].node : k \in 1..Len(extracted)} = {1, 7}

\* C8 witness: the separate-scans run on 12 nodes returned with two views.
C8_Witness ==
    /\ front_views_only /\ separate_scans /\ upc = "done"
    /\ count = 12 /\ Len(extracted) = 2

\* C9 as claimed: the correction of the pose at the origin with the
\* identity rotation is exactly TD.
C9_OriginIdentityGivesTD ==
    (fc_T # <<>> /\ fc_translation = <<0, 0, 0>> /\ fc_rotation = Identity3)
       => fc_T = << <<1, 0, 0, 0>>, <<0, 0, 1, 0>>, <<0, -1, 0, 0>>, <<0, 0, 0, 1>> >>

\* C9 as amended: the correction of the pose at the origin with the identity
\* rotation is TD with its Y and Z columns negated,
\* [[1,0,0,0],[0,0,-1,0],[0,1,0,0],[0,0,0,1]].
C9_OriginIdentityGivesFlippedTD ==
    (fc_T # <<>> /\ fc_translation = <<0, 0, 0>> /\ fc_rotation = Identity3)
       => fc_T = << <<1, 0, 0, 0>>, <<0, 0, -1, 0>>, <<0, 1, 0, 0>>, <<0, 0, 0, 1>> >>

\* C9 witness: the correction has been applied to the origin/identity pose.
C9_Witness ==
    fc_T # <<>> /\ fc_translation = <<0, 0, 0>> /\ fc_rotation = Identity3

\* C10: a malformed node does not abort the extraction: when unpack has
\* ended, every other node the mode selects has been extracted.
C10_MalformedNodeIsSkipped ==
    upc \in {"done", "aborted"} =>
       \A n \in 0..(count - 1) :
          (n # badNode /\ (front_views_only => n % 6 = 1))
             => \E k \in 1..Len(extracted) : extracted[k].node = n
\* C11: a malformed or unreadable metadata/image pair met during the
\* submission pass is skipped: it does not end the run, and a submitting run
\* that met one has still invoked /construct when it has ended.
C11_UnreadablePairIsSkipped ==
    err \in {"list", "read", "image"} =>
       /\ pc # "aborted"
       /\ (submit /\ pc \in {"done", "aborted"}) => Sent("construct")
\* What the receiver does: cut the body at its first 0x00 byte.
FirstNul(b) == CHOOSE k \in 1..Len(b) : b[k] = 0 /\ \A j \in 1..(k - 1) : b[j] # 0
SplitAtFirstNul(b) == <<SubSeq(b, 1, FirstNul(b) - 1), SubSeq(b, FirstNul(b) + 1, Len(b))>>

\* C12: the /capture body is the JSON header, one 0x00 byte, then the image
\* bytes; the header holds no 0x00 byte, so cutting the body at its first
\* 0x00 gives back the header and the image bytes, also when the image
\* bytes hold 0x00.
C12_NulFraming ==
    fr_body # <<>> =>
       LET header == JsonHeader(fr_token, fr_index, fr_px)
           body == fr_body[1]
       IN /\ Len(body) = Len(header) + 1 + Len(fr_img)
          /\ SubSeq(body, 1, Len(header)) = header
          /\ body[Len(header) + 1] = 0
          /\ SubSeq(body, Len(header) + 2, Len(body)) = fr_img
          /\ \A k \in 1..Len(header) : header[k] # 0
          /\ SplitAtFirstNul(body) = <<header, fr_img>>

\* C12 witness: a body has been built from a token that holds a NUL
\* character and an image that holds a 0x00 byte.
C12_Witness ==
    /\ fr_body # <<>>
    /\ fr_token # <<>> /\ \E k \in 1..Len(fr_token[1]) : fr_token[1][k] = 0
    /\ \E k \in 1..Len(fr_img) : fr_img[k] = 0
\* C13: for every stored position and rotation the corrected pose TD.T has
\* translation (px, pz, -py) and rotation rows (r00,-r01,-r02),
\* (r20,-r21,-r22), (-r10,r11,r12), and these are the px,py,pz and r00..r22
\* put in the /capture header.
C13_CorrectedPoseInHeader ==
    LET t == fc_translation
        r == fc_rotation
    IN /\ fc_T # <<>> =>
             /\ <<fc_T[1][4], fc_T[2][4], fc_T[3][4]>> = <<t[1], t[3], -t[2]>>
             /\ <<fc_T[1][1], fc_T[1][2], fc_T[1][3]>> = <<r[1][1], -r[1][2], -r[1][3]>>
             /\ <<fc_T[2][1], fc_T[2][2], fc_T[2][3]>> = <<r[3][1], -r[3][2], -r[3][3]>>
             /\ <<fc_T[3][1], fc_T[3][2], fc_T[3][3]>> = <<-r[2][1], r[2][2], r[2][3]>>
       /\ fc_header # <<>> =>
             fc_header[1] =
                [px |-> t[1], py |-> t[3], pz |-> -t[2],
                 r00 |-> r[1][1], r01 |-> -r[1][2], r02 |-> -r[1][3],
                 r10 |-> r[3][1], r11 |-> -r[3][2], r12 |-> -r[3][3],
                 r20 |-> -r[2][1], r21 |-> r[2][2], r22 |-> r[2][3]]

\* C13 witness: the header has been built for a pose whose nine rotation
\* entries and three position entries are all different and non-zero.
C13_Witness ==
    /\ fc_header # <<>>
    /\ fc_rotation = << <<1, 2, 3>>, <<4, 5, 6>>, <<7, 8, 9>> >>
    /\ fc_translation = <<1, 3, 5>>
\* C14: for every view extraction has written, JPEG or PNG, the image path
\* the submission pass derives from its metadata record is the path of the
\* image file extraction wrote for it.
C14_DerivedPathIsWrittenImage ==
    vw_derived # <<>> =>
       /\ vw_derived[1] \in vw_files
       /\ vw_derived[1] = <<vw_path, vw_node.guid, vw_ext>>

\* 3x3 product of the transpose of m with m
TransposeTimes(m) ==
    [r \in 1..3 |-> [c \in 1..3 |-> m[1][r] * m[1][c] + m[2][r] * m[2][c] + m[3][r] * m[3][c]]]

\* C15: for every decoded node, with or without a pose, the quaternion
\* handed to quaternion_to_matrix3x3 has non-zero magnitude, so the
\* normalization does not divide by zero and the stored rotation is a
\* well-defined orthonormal matrix.
C15_QuaternionNonZero ==
    vw_rot # <<>> =>
       /\ vw_quat[1] * vw_quat[1] + vw_quat[2] * vw_quat[2]
             + vw_quat[3] * vw_quat[3] + vw_quat[4] * vw_quat[4] # 0
       /\ vw_rot[1].defined
       /\ TransposeTimes(vw_rot[1].num)
             = [r \in 1..3 |-> [c \in 1..3 |->
                   IF r = c THEN vw_rot[1].den * vw_rot[1].den ELSE 0]]
       /\ vw_meta # <<>> => vw_meta[1].rot.defined
====
